---- MODULE Spec2Model ----
(***************************************************************************)
(* Persistent variables plugin: the process-wide variable store            *)
(* (PersistentVariables), the script functions that drive it, and the two  *)
(* album lifecycle processors.                                             *)
(*                                                                         *)
(* A Python dict is a TLA+ function whose DOMAIN is the set of its keys.   *)
(* A variable name is a sequence of one-character strings, so that         *)
(* normalize_tagname can look at the first character.  Values and album    *)
(* identifiers are strings; the empty string is Python's falsy string.    *)
(***************************************************************************)
EXTENDS Integers, Sequences, FiniteSets, TLC

VARIABLES
    album_variables,    \* PersistentVariables.album_variables: album id -> (key -> value)
    session_variables,  \* PersistentVariables.session_variables: key -> value
    ret,                \* what the last call gave back: the string a script function
                        \* or reader returned, the dict an enumeration read returned,
                        \* or the table the dialog shows
    last,               \* the last call made by the host: operation and arguments
    removed             \* albums removed by the removal processor and not touched
                        \* since by set_a, clear_a or the album-start processor

vars == <<album_variables, session_variables, ret, last, removed>>

(***************************************************************************)
(* Input domains.                                                          *)
(***************************************************************************)

\* Names a script can pass: the empty name and two spellings ("_a", "~a") of
\* one hidden-tag name.
Names == { <<>>, <<"_", "a">>, <<"~", "a">> }

\* Values a script can pass; "" is the empty value.
Values == { "", "x", "y" }

\* Identifiers of the albums the host has loaded (str(album.id)).
AlbumIds == { "A1", "A2" }

\* A missing album identifier (empty context entry, or album None).
NoId == ""

\* The evaluation context of a script function (the parser):
\*   file    - parser.file is set
\*   parent  - file.parent: "None", "Cluster" (has no album attribute), "Track"
\*   album   - str(file.parent.album.id), NoId when file.parent.album is None
\*   context - parser.context['musicbrainz_albumid'], NoId when not set
Parsers ==
    { [file |-> FALSE, parent |-> "None", album |-> NoId, context |-> c] :
          c \in AlbumIds \cup {NoId} }
    \cup
    { [file |-> TRUE, parent |-> p, album |-> NoId, context |-> c] :
          p \in {"None", "Cluster"}, c \in AlbumIds \cup {NoId} }
    \cup
    { [file |-> TRUE, parent |-> "Track", album |-> a, context |-> c] :
          a \in AlbumIds \cup {NoId}, c \in AlbumIds \cup {NoId} }

NoParser == [file |-> FALSE, parent |-> "None", album |-> NoId, context |-> NoId]

(***************************************************************************)
(* Python dict primitives.                                                 *)
(***************************************************************************)

EmptyDict == [x \in {} |-> ""]

\* d[k] = v
Put(d, k, v) == [x \in (DOMAIN d) \cup {k} |-> IF x = k THEN v ELSE d[x]]

\* d.pop(k, None)
Pop(d, k) == [x \in (DOMAIN d) \ {k} |-> d[x]]

(***************************************************************************)
(* PersistentVariables: each method is a function of the dict it works on, *)
(* giving the dict afterwards (mutators) or the value returned (readers).  *)
(***************************************************************************)

\* Faulty variant: keeps a mapping that is already there (setdefault).
clear_album_vars_keep(av, album) ==
    IF album # "" /\ album \notin DOMAIN av THEN Put(av, album, EmptyDict) ELSE av

\* Faulty variant: the guard on the album identifier is missing.
clear_album_vars_unguarded(av, album) == Put(av, album, EmptyDict)

\* Faulty variant: rebinds the whole album store to hold this album alone.
clear_album_vars_all(av, album) ==
    IF album # "" THEN Put(EmptyDict, album, EmptyDict) ELSE av

clear_album_vars(av, album) ==
    IF album # "" THEN Put(av, album, EmptyDict) ELSE av

\* Faulty variant: a first write to an unknown album only creates its mapping.
set_album_var_create_only(av, album, key, value) ==
    IF album # ""
    THEN IF album \notin DOMAIN av
         THEN Put(av, album, EmptyDict)
         ELSE IF key # <<>>
              THEN Put(av, album, Put(av[album], key, value))
              ELSE av
    ELSE av

set_album_var(av, album, key, value) ==
    IF album # ""
    THEN LET av1 == IF album \notin DOMAIN av
                    THEN clear_album_vars(av, album)
                    ELSE av
         IN  IF key # <<>>
             THEN Put(av1, album, Put(av1[album], key, value))
             ELSE av1
    ELSE av

unset_album_var(av, album, key) ==
    IF album # "" /\ album \in DOMAIN av
    THEN Put(av, album, Pop(av[album], key))
    ELSE av

\* Faulty variant: empties the album's mapping instead of removing it.
unset_album_dict_clear(av, album) ==
    IF album # "" THEN Put(av, album, EmptyDict) ELSE av

unset_album_dict(av, album) ==
    IF album # "" THEN Pop(av, album) ELSE av

\* Faulty variant: a missing key gives dict.get's None, not "".
get_album_var_none(av, album, key) ==
    IF album \in DOMAIN av
    THEN (IF key \in DOMAIN av[album] THEN av[album][key] ELSE "None")
    ELSE ""

get_album_var(av, album, key) ==
    IF album \in DOMAIN av
    THEN (IF key \in DOMAIN av[album] THEN av[album][key] ELSE "")
    ELSE ""

\* Faulty variant: the new dict is bound to a local name; the class keeps its own.
clear_session_vars_keep(sv) == sv

clear_session_vars(sv) == EmptyDict

\* Faulty variant: an empty value removes the key.
set_session_var_unset_empty(sv, key, value) ==
    IF key # <<>>
    THEN (IF value # "" THEN Put(sv, key, value) ELSE Pop(sv, key))
    ELSE sv

set_session_var(sv, key, value) ==
    IF key # <<>> THEN Put(sv, key, value) ELSE sv

unset_session_var(sv, key) == Pop(sv, key)

get_session_var(sv, key) ==
    IF key \in DOMAIN sv THEN sv[key] ELSE ""

get_album_dict(av, album) ==
    IF album # "" /\ album \in DOMAIN av THEN av[album] ELSE EmptyDict

get_session_dict(sv) == sv

(***************************************************************************)
(* Script function bridge.                                                 *)
(***************************************************************************)

\* picard.script.parser.normalize_tagname: a leading "_" becomes "~".
normalize_tagname(name) ==
    IF Len(name) > 0 /\ name[1] = "_" THEN <<"~">> \o Tail(name) ELSE name

\* Faulty variant: a file outside any loaded album falls back to the context.
get_album_id_fallback(parser) ==
    IF parser.file /\ parser.parent = "Track" /\ parser.album # NoId
    THEN parser.album
    ELSE parser.context

get_album_id(parser) ==
    IF parser.file
    THEN IF parser.parent # "None" /\ parser.parent = "Track" /\ parser.album # NoId
         THEN parser.album
         ELSE ""
    ELSE parser.context

\* Each script function gives the dict afterwards and the string returned.
func_unset_s(sv, name) ==
    [sv |-> unset_session_var(sv, normalize_tagname(name)), ret |-> ""]

\* Faulty variant: the name is stored as given, not normalized.
func_set_s_raw_name(sv, name, value) ==
    IF value # ""
    THEN [sv |-> set_session_var(sv, name, value), ret |-> ""]
    ELSE [sv |-> unset_session_var(sv, normalize_tagname(name)), ret |-> ""]

\* Faulty variant: an empty value is stored like any other.
func_set_s_store_empty(sv, name, value) ==
    [sv |-> set_session_var(sv, normalize_tagname(name), value), ret |-> ""]

func_set_s(sv, name, value) ==
    IF value # ""
    THEN [sv |-> set_session_var(sv, normalize_tagname(name), value), ret |-> ""]
    ELSE [sv |-> func_unset_s(sv, name).sv, ret |-> ""]

func_get_s(sv, name) ==
    [sv |-> sv, ret |-> get_session_var(sv, normalize_tagname(name))]

func_clear_s(sv) ==
    [sv |-> clear_session_vars(sv), ret |-> ""]

\* Faulty variant: the name is looked up as given, not normalized.
func_unset_a_raw_name(av, parser, name) ==
    LET album_id == get_album_id(parser)
    IN  IF album_id # ""
        THEN [av |-> unset_album_var(av, album_id, name), ret |-> ""]
        ELSE [av |-> av, ret |-> ""]

func_unset_a(av, parser, name) ==
    LET album_id == get_album_id(parser)
    IN  IF album_id # ""
        THEN [av |-> unset_album_var(av, album_id, normalize_tagname(name)), ret |-> ""]
        ELSE [av |-> av, ret |-> ""]

\* Faulty variant: returns the value that was set.
func_set_a_echo(av, parser, name, value) ==
    LET album_id == get_album_id(parser)
    IN  IF album_id # ""
        THEN [av |-> set_album_var(av, album_id, normalize_tagname(name), value),
              ret |-> value]
        ELSE [av |-> av, ret |-> value]

\* Faulty variant: an empty value unsets the variable, as func_set_s does.
func_set_a_unset_empty(av, parser, name, value) ==
    LET album_id == get_album_id(parser)
    IN  IF album_id # ""
        THEN IF value # ""
             THEN [av |-> set_album_var(av, album_id, normalize_tagname(name), value),
                   ret |-> ""]
             ELSE [av |-> unset_album_var(av, album_id, normalize_tagname(name)),
                   ret |-> ""]
        ELSE [av |-> av, ret |-> ""]

func_set_a(av, parser, name, value) ==
    LET album_id == get_album_id(parser)
    IN  IF album_id # ""
        THEN [av |-> set_album_var(av, album_id, normalize_tagname(name), value), ret |-> ""]
        ELSE [av |-> av, ret |-> ""]

func_get_a(av, parser, name) ==
    LET album_id == get_album_id(parser)
    IN  IF album_id # ""
        THEN [av |-> av, ret |-> get_album_var(av, album_id, normalize_tagname(name))]
        ELSE [av |-> av, ret |-> ""]

func_clear_a(av, parser) ==
    LET album_id == get_album_id(parser)
    IN  IF album_id # ""
        THEN [av |-> clear_album_vars(av, album_id), ret |-> ""]
        ELSE [av |-> av, ret |-> ""]

(***************************************************************************)
(* Album lifecycle processors.                                             *)
(***************************************************************************)

initialize_album_dict(av, album_id) == clear_album_vars(av, album_id)

destroy_album_dict(av, album_id) == unset_album_dict(av, album_id)

(***************************************************************************)
(* The state machine driven by the host: script evaluation and album       *)
(* lifecycle events, one call at a time.                                   *)
(***************************************************************************)

Call(op, parser, album, name, value) ==
    [op |-> op, parser |-> parser, album |-> album, name |-> name, value |-> value]

Init ==
    /\ album_variables = EmptyDict
    /\ session_variables = EmptyDict
    /\ ret = ""
    /\ last = Call("enable", NoParser, NoId, <<>>, "")
    /\ removed = {}

ScriptSetS ==
    \E n \in Names, v \in Values :
        LET r == func_set_s(session_variables, n, v)
        IN  /\ session_variables' = r.sv
            /\ ret' = r.ret
            /\ last' = Call("set_s", NoParser, NoId, n, v)
            /\ UNCHANGED <<album_variables, removed>>

ScriptUnsetS ==
    \E n \in Names :
        LET r == func_unset_s(session_variables, n)
        IN  /\ session_variables' = r.sv
            /\ ret' = r.ret
            /\ last' = Call("unset_s", NoParser, NoId, n, "")
            /\ UNCHANGED <<album_variables, removed>>

ScriptGetS ==
    \E n \in Names :
        LET r == func_get_s(session_variables, n)
        IN  /\ session_variables' = r.sv
            /\ ret' = r.ret
            /\ last' = Call("get_s", NoParser, NoId, n, "")
            /\ UNCHANGED <<album_variables, removed>>

ScriptClearS ==
    LET r == func_clear_s(session_variables)
    IN  /\ session_variables' = r.sv
        /\ ret' = r.ret
        /\ last' = Call("clear_s", NoParser, NoId, <<>>, "")
        /\ UNCHANGED <<album_variables, removed>>

ScriptSetA ==
    \E p \in Parsers, n \in Names, v \in Values :
        LET r == func_set_a(album_variables, p, n, v)
        IN  /\ album_variables' = r.av
            /\ ret' = r.ret
            /\ last' = Call("set_a", p, NoId, n, v)
            /\ removed' = removed \ {get_album_id(p)}
            /\ UNCHANGED session_variables

ScriptUnsetA ==
    \E p \in Parsers, n \in Names :
        LET r == func_unset_a(album_variables, p, n)
        IN  /\ album_variables' = r.av
            /\ ret' = r.ret
            /\ last' = Call("unset_a", p, NoId, n, "")
            /\ UNCHANGED <<session_variables, removed>>

ScriptGetA ==
    \E p \in Parsers, n \in Names :
        LET r == func_get_a(album_variables, p, n)
        IN  /\ album_variables' = r.av
            /\ ret' = r.ret
            /\ last' = Call("get_a", p, NoId, n, "")
            /\ UNCHANGED <<session_variables, removed>>

ScriptClearA ==
    \E p \in Parsers :
        LET r == func_clear_a(album_variables, p)
        IN  /\ album_variables' = r.av
            /\ ret' = r.ret
            /\ last' = Call("clear_a", p, NoId, <<>>, "")
            /\ removed' = removed \ {get_album_id(p)}
            /\ UNCHANGED session_variables

AlbumStart ==
    \E a \in AlbumIds :
        /\ album_variables' = initialize_album_dict(album_variables, a)
        /\ last' = Call("initialize_album_dict", NoParser, a, <<>>, "")
        /\ removed' = removed \ {a}
        /\ UNCHANGED <<session_variables, ret>>

AlbumRemoved ==
    \E a \in AlbumIds :
        /\ album_variables' = destroy_album_dict(album_variables, a)
        /\ last' = Call("destroy_album_dict", NoParser, a, <<>>, "")
        /\ removed' = removed \cup {a}
        /\ UNCHANGED <<session_variables, ret>>

Next ==
    \/ ScriptSetS
    \/ ScriptUnsetS
    \/ ScriptGetS
    \/ ScriptClearS
    \/ ScriptSetA
    \/ ScriptUnsetA
    \/ ScriptGetA
    \/ ScriptClearA
    \/ AlbumStart
    \/ AlbumRemoved

Spec == Init /\ [][Next]_vars

(***************************************************************************)
(* The store driven directly: PersistentVariables is a class of public     *)
(* class methods, callable with any arguments (an empty album identifier,  *)
(* an empty key, an empty value).                                          *)
(***************************************************************************)

\* Keys a direct caller passes: the keys the script functions produce, and
\* the empty key.
StoreKeys == { normalize_tagname(n) : n \in Names }

StoreAlbums == AlbumIds \cup {NoId}

StoreClearAlbumVars ==
    \E a \in StoreAlbums :
        /\ album_variables' = clear_album_vars(album_variables, a)
        /\ last' = Call("clear_album_vars", NoParser, a, <<>>, "")
        /\ removed' = removed \ {a}
        /\ UNCHANGED <<session_variables, ret>>

StoreSetAlbumVar ==
    \E a \in StoreAlbums, k \in StoreKeys, v \in Values :
        /\ album_variables' = set_album_var(album_variables, a, k, v)
        /\ last' = Call("set_album_var", NoParser, a, k, v)
        /\ removed' = removed \ {a}
        /\ UNCHANGED <<session_variables, ret>>

StoreUnsetAlbumVar ==
    \E a \in StoreAlbums, k \in StoreKeys :
        /\ album_variables' = unset_album_var(album_variables, a, k)
        /\ last' = Call("unset_album_var", NoParser, a, k, "")
        /\ UNCHANGED <<session_variables, ret, removed>>

StoreUnsetAlbumDict ==
    \E a \in StoreAlbums :
        /\ album_variables' = unset_album_dict(album_variables, a)
        /\ last' = Call("unset_album_dict", NoParser, a, <<>>, "")
        /\ UNCHANGED <<session_variables, ret, removed>>

StoreGetAlbumVar ==
    \E a \in StoreAlbums, k \in StoreKeys :
        /\ ret' = get_album_var(album_variables, a, k)
        /\ last' = Call("get_album_var", NoParser, a, k, "")
        /\ UNCHANGED <<album_variables, session_variables, removed>>

StoreClearSessionVars ==
    /\ session_variables' = clear_session_vars(session_variables)
    /\ last' = Call("clear_session_vars", NoParser, NoId, <<>>, "")
    /\ UNCHANGED <<album_variables, ret, removed>>

StoreSetSessionVar ==
    \E k \in StoreKeys, v \in Values :
        /\ session_variables' = set_session_var(session_variables, k, v)
        /\ last' = Call("set_session_var", NoParser, NoId, k, v)
        /\ UNCHANGED <<album_variables, ret, removed>>

StoreUnsetSessionVar ==
    \E k \in StoreKeys :
        /\ session_variables' = unset_session_var(session_variables, k)
        /\ last' = Call("unset_session_var", NoParser, NoId, k, "")
        /\ UNCHANGED <<album_variables, ret, removed>>

StoreGetSessionVar ==
    \E k \in StoreKeys :
        /\ ret' = get_session_var(session_variables, k)
        /\ last' = Call("get_session_var", NoParser, NoId, k, "")
        /\ UNCHANGED <<album_variables, session_variables, removed>>

StoreNext ==
    \/ StoreClearAlbumVars
    \/ StoreSetAlbumVar
    \/ StoreUnsetAlbumVar
    \/ StoreUnsetAlbumDict
    \/ StoreGetAlbumVar
    \/ StoreClearSessionVars
    \/ StoreSetSessionVar
    \/ StoreUnsetSessionVar
    \/ StoreGetSessionVar

\* The store under direct calls alone.
StoreSpec == Init /\ [][StoreNext]_vars

\* Script functions, lifecycle processors and direct calls interleaved.
AllNext == Next \/ StoreNext

AllSpec == Init /\ [][AllNext]_vars

\* The two enumeration reads; the value returned is the dict itself.
StoreGetAlbumDict ==
    \E a \in StoreAlbums :
        /\ ret' = get_album_dict(album_variables, a)
        /\ last' = Call("get_album_dict", NoParser, a, <<>>, "")
        /\ UNCHANGED <<album_variables, session_variables, removed>>

StoreGetSessionDict ==
    /\ ret' = get_session_dict(session_variables)
    /\ last' = Call("get_session_dict", NoParser, NoId, <<>>, "")
    /\ UNCHANGED <<album_variables, session_variables, removed>>

StoreReadNext == StoreNext \/ StoreGetAlbumDict \/ StoreGetSessionDict

\* The store under direct calls, the enumeration reads included.
StoreReadSpec == Init /\ [][StoreReadNext]_vars

(***************************************************************************)
(* The inspection dialog (ViewPersistentVariablesDialog).                  *)
(***************************************************************************)

\* The object the dialog is opened on (obj in ViewPersistentVariables.callback):
\*   kind   - "Album", "File" or "Track"
\*   parent - for a File, file.parent: "None", "Cluster", "Track"
\*   album  - str(obj.id) for an Album, str(obj.parent.album.id) for a File,
\*            str(obj.album.id) for a Track; NoId when that album is None
Objs ==
    { [kind |-> "Album", parent |-> "None", album |-> a] : a \in AlbumIds }
    \cup
    { [kind |-> "File", parent |-> p, album |-> NoId] : p \in {"None", "Cluster"} }
    \cup
    { [kind |-> "File", parent |-> "Track", album |-> a] : a \in AlbumIds \cup {NoId} }
    \cup
    { [kind |-> "Track", parent |-> "None", album |-> a] : a \in AlbumIds \cup {NoId} }

\* self.album_id as __init__ derives it from obj.
dialog_album_id(obj) ==
    LET id0 == ""
        id1 == IF obj.kind = "Album" THEN obj.album ELSE id0
    IN  IF obj.kind = "File"
        THEN (IF obj.parent # "None" /\ obj.parent = "Track" /\ obj.album # NoId
              THEN obj.album
              ELSE id1)
        ELSE IF obj.kind = "Track"
             THEN (IF obj.album # NoId THEN obj.album ELSE id1)
             ELSE id1

\* Code points of the characters names are made of (Python compares strings
\* by code point).
CharCode == [c \in {"_", "a", "b", "~"} |->
                CASE c = "_" -> 95 [] c = "a" -> 97 [] c = "b" -> 98 [] c = "~" -> 126]

\* s < t for Python strings.
RECURSIVE StrLess(_, _)
StrLess(s, t) ==
    IF s = <<>> THEN t # <<>>
    ELSE IF t = <<>> THEN FALSE
    ELSE IF Head(s) = Head(t) THEN StrLess(Tail(s), Tail(t))
    ELSE CharCode[Head(s)] < CharCode[Head(t)]

\* Faulty variant: descending order (reverse=True).
RECURSIVE sorted_descending(_)
sorted_descending(keys) ==
    IF keys = {} THEN <<>>
    ELSE LET m == CHOOSE x \in keys : \A y \in keys \ {x} : StrLess(y, x)
         IN  <<m>> \o sorted_descending(keys \ {m})

\* The ascending list sorted_keys gives: the smallest key first.
RECURSIVE sorted_ascending(_)
sorted_ascending(keys) ==
    IF keys = {} THEN <<>>
    ELSE LET m == CHOOSE x \in keys : \A y \in keys \ {x} : StrLess(x, y)
         IN  <<m>> \o sorted_ascending(keys \ {m})

\* sorted(d.keys())
sorted_keys(keys) == sorted_ascending(keys)

\* A table row: the texts of its two cells and the key cell's font weight.
\* add_separator_row writes a bold title and the item count ("1 item",
\* "N items").
add_separator_row(title, count) ==
    [key |-> <<title>>, value |-> [n |-> count, unit |-> IF count = 1 THEN "item" ELSE "items"],
     bold |-> TRUE]

\* The rows written for one dict, in the order of the loop.
data_rows(d) ==
    LET ks == sorted_keys(DOMAIN d)
    IN  [i \in 1..Len(ks) |-> [key |-> ks[i], value |-> d[ks[i]], bold |-> FALSE]]

\* The table __init__ fills: row i of the code is rows[i + 1].
dialog_table(av, sv, obj) ==
    LET album_dict == get_album_dict(av, dialog_album_id(obj))
        album_count == Cardinality(DOMAIN album_dict)
        session_dict == get_session_dict(sv)
        session_count == Cardinality(DOMAIN session_dict)
    IN  [row_count |-> album_count + session_count + 2,
         rows |-> <<add_separator_row("Album Variables", album_count)>>
                  \o data_rows(album_dict)
                  \o <<add_separator_row("Session Variables", session_count)>>
                  \o data_rows(session_dict)]

\* Faulty variant: looks the album up with setdefault, creating its mapping.
ViewPersistentVariablesDialog_setdefault(av, sv, obj) ==
    [av |-> clear_album_vars_keep(av, dialog_album_id(obj)),
     sv |-> sv,
     table |-> dialog_table(av, sv, obj)]

\* Constructing the dialog: the two dicts afterwards and the table shown.
ViewPersistentVariablesDialog(av, sv, obj) ==
    [av |-> av, sv |-> sv, table |-> dialog_table(av, sv, obj)]

\* Names and evaluation contexts of the scripts run before the dialog is
\* opened: two names with different keys, on albums just retrieved.
DialogNames == { <<"b">>, <<"_", "a">> }

DialogParsers == { p \in Parsers : ~p.file /\ p.context \in AlbumIds }

DialogSetS ==
    \E n \in DialogNames, v \in Values :
        LET r == func_set_s(session_variables, n, v)
        IN  /\ session_variables' = r.sv
            /\ ret' = r.ret
            /\ last' = Call("set_s", NoParser, NoId, n, v)
            /\ UNCHANGED <<album_variables, removed>>

DialogSetA ==
    \E p \in DialogParsers, n \in DialogNames, v \in Values :
        LET r == func_set_a(album_variables, p, n, v)
        IN  /\ album_variables' = r.av
            /\ ret' = r.ret
            /\ last' = Call("set_a", p, NoId, n, v)
            /\ removed' = removed \ {get_album_id(p)}
            /\ UNCHANGED session_variables

\* ViewPersistentVariables.callback on the object obj; the call record holds
\* obj in place of a parser, and ret holds the table shown.
ViewDialog ==
    \E obj \in Objs :
        LET r == ViewPersistentVariablesDialog(album_variables, session_variables, obj)
        IN  /\ album_variables' = r.av
            /\ session_variables' = r.sv
            /\ ret' = r.table
            /\ last' = Call("view", obj, NoId, <<>>, "")
            /\ UNCHANGED removed

DialogNext == DialogSetS \/ DialogSetA \/ ViewDialog

\* Scripts filling both scopes, and the dialog opened at any moment.
DialogSpec == Init /\ [][DialogNext]_vars

(***************************************************************************)
(* Properties.                                                             *)
(***************************************************************************)

AlbumOps == {"set_a", "unset_a", "get_a", "clear_a"}

\* The evaluation context refers to a file that belongs to a loaded album.
InLoadedAlbum(parser) ==
    parser.file /\ parser.parent = "Track" /\ parser.album # NoId

\* C1 as stated: after $set_s(k, v) with a non-empty v, for ANY key k,
\* $get_s(k) returns v.
C1_AnyKeyRoundTrip ==
    (last.op = "set_s" /\ last.value # "")
        => func_get_s(session_variables, last.name).ret = last.value

\* C1 amended: after $set_s(k, v) with a non-empty v and a k whose normalized
\* name is not empty, $get_s(k) returns v.
C1_SessionRoundTrip ==
    (last.op = "set_s" /\ last.value # "" /\ normalize_tagname(last.name) # <<>>)
        => func_get_s(session_variables, last.name).ret = last.value

C1_Witness ==
    /\ last.op = "set_s"
    /\ last.name = <<"_", "a">>
    /\ last.value = "y"
    /\ func_get_s(session_variables, last.name).ret = "y"

\* C2: after set_album(A, k, v) with non-empty A and k, get_album(A, k) returns
\* v (the store called directly); and after $set_a(k, v) that resolved a
\* non-empty A, $get_a(k) returns v in every evaluation context that resolves
\* to the same A, in particular on a file of A after a $set_a that took A from
\* the context.
C2_AlbumRoundTrip ==
    /\ (last.op = "set_album_var" /\ last.album # NoId /\ last.name # <<>>)
           => get_album_var(album_variables, last.album, last.name) = last.value
    /\ (last.op = "set_a" /\ get_album_id(last.parser) # NoId /\ last.name # <<>>)
           => \A p \in Parsers :
                  get_album_id(p) = get_album_id(last.parser)
                      => func_get_a(album_variables, p, last.name).ret = last.value

C2_Witness ==
    /\ last.op = "set_a"
    /\ ~last.parser.file
    /\ last.parser.context = "A1"
    /\ last.name = <<"_", "a">>
    /\ last.value = "x"
    /\ \E p \in Parsers :
           /\ InLoadedAlbum(p)
           /\ p.album = "A1"
           /\ p.context = NoId
           /\ func_get_a(album_variables, p, last.name).ret = "x"

\* The album identifier C3 states: the file's album when the file belongs to
\* a loaded album, the context's identifier in every other case.
C3_StatedId(parser) ==
    IF InLoadedAlbum(parser) THEN parser.album ELSE parser.context

\* The album identifier of the amended C3: the context's identifier is used
\* only when the context has no file.
C3_AmendedId(parser) ==
    IF parser.file
    THEN (IF InLoadedAlbum(parser) THEN parser.album ELSE NoId)
    ELSE parser.context

\* An album-scoped script function has just acted as the store operation on
\* album A does.
C3_ActsOn(A) ==
    LET key == normalize_tagname(last'.name)
    IN  /\ last'.op = "set_a" =>
               album_variables' = set_album_var(album_variables, A, key, last'.value)
        /\ last'.op = "unset_a" =>
               album_variables' = unset_album_var(album_variables, A, key)
        /\ last'.op = "clear_a" =>
               album_variables' = clear_album_vars(album_variables, A)
        /\ last'.op = "get_a" =>
               /\ album_variables' = album_variables
               /\ ret' = get_album_var(album_variables, A, key)

\* C3 as stated: every album-scoped function works on the file's album when
\* the file belongs to a loaded album, and on the context's album identifier
\* in every other case.
C3_FallbackInEveryOtherCase ==
    [][last'.op \in AlbumOps => C3_ActsOn(C3_StatedId(last'.parser))]_vars

\* C3 amended: every album-scoped function works on the file's album when the
\* context has a file that belongs to a loaded album, on no album when the
\* context has a file that belongs to none, and on the context's album
\* identifier only when the context has no file.
C3_Resolution ==
    [][last'.op \in AlbumOps => C3_ActsOn(C3_AmendedId(last'.parser))]_vars

C3_Witness ==
    /\ last.op = "set_a"
    /\ last.parser.file
    /\ ~InLoadedAlbum(last.parser)
    /\ last.parser.context = "A1"
    /\ last.name = <<"~", "a">>
    /\ last.value = "x"
    /\ "A1" \notin DOMAIN album_variables

\* C4: $set_s(name, "") leaves the session mapping as $unset_s(name) would
\* leave it, without an entry for the normalized name, so that $get_s(name)
\* returns "".
C4_SetEmptyIsUnset ==
    [][(last'.op = "set_s" /\ last'.value = "") =>
          /\ session_variables' = func_unset_s(session_variables, last'.name).sv
          /\ normalize_tagname(last'.name) \notin DOMAIN session_variables'
          /\ func_get_s(session_variables', last'.name).ret = ""
          /\ ret' = func_unset_s(session_variables, last'.name).ret]_vars

C4_Witness ==
    /\ last.op = "set_s"
    /\ last.value = ""
    /\ last.name = <<"_", "a">>
    /\ <<"~", "a">> \notin DOMAIN session_variables
    /\ DOMAIN album_variables # {}

\* C5: an album removed by the removal processor, and not touched since by
\* $set_a, $clear_a or the album-start processor, is not a key of the album
\* store, and $get_a returns "" for every name on a file of that album.
C5_RemovedAlbumReadsEmpty ==
    /\ last.op = "destroy_album_dict" => last.album \in removed
    /\ \A A \in removed :
           /\ A \notin DOMAIN album_variables
           /\ \A p \in Parsers, n \in Names :
                  (InLoadedAlbum(p) /\ p.album = A)
                      => func_get_a(album_variables, p, n).ret = ""
    /\ (last.op = "get_a" /\ InLoadedAlbum(last.parser)
            /\ last.parser.album \in removed) => ret = ""

C5_Witness ==
    /\ "A1" \in removed
    /\ last.op = "get_a"
    /\ InLoadedAlbum(last.parser)
    /\ last.parser.album = "A1"
    /\ last.name = <<"_", "a">>
    /\ ret = ""
    /\ "A2" \in DOMAIN album_variables

\* C6: right after the album-start processor ran for album A, A is a key of
\* the album store mapped to an empty mapping, and get_album(A, k) returns ""
\* for every k.
C6_StartLeavesEmptyMapping ==
    last.op = "initialize_album_dict" =>
        /\ last.album \in DOMAIN album_variables
        /\ album_variables[last.album] = EmptyDict
        /\ get_album_dict(album_variables, last.album) = EmptyDict
        /\ \A n \in Names :
               get_album_var(album_variables, last.album, normalize_tagname(n)) = ""
        /\ \A p \in Parsers, n \in Names :
               get_album_id(p) = last.album
                   => func_get_a(album_variables, p, n).ret = ""

C6_Witness ==
    /\ last.op = "initialize_album_dict"
    /\ last.album = "A1"
    /\ album_variables["A1"] = EmptyDict
    /\ "A2" \in DOMAIN album_variables
    /\ DOMAIN album_variables["A2"] # {}

\* C7: when no album identifier is resolved, each of $set_a, $unset_a, $get_a
\* and $clear_a returns "" and changes neither the album store nor the
\* session mapping.
C7_UnresolvedAlbumIsNoOp ==
    [][(last'.op \in AlbumOps /\ get_album_id(last'.parser) = NoId) =>
          /\ ret' = ""
          /\ album_variables' = album_variables
          /\ session_variables' = session_variables]_vars

C7_Witness ==
    /\ last.op = "set_a"
    /\ get_album_id(last.parser) = NoId
    /\ last.parser.context = "A1"
    /\ last.name = <<"_", "a">>
    /\ last.value = "x"
    /\ ret = ""
    /\ "A1" \in DOMAIN album_variables
    /\ album_variables["A1"] = EmptyDict
    /\ DOMAIN session_variables # {}

\* C8: after any sequence of script functions, lifecycle processors and direct
\* store calls, calls with an empty album identifier included, the empty
\* string is not a key of the album store and every key of it is a loaded
\* album's identifier mapped to a mapping from keys to values.
C8_AlbumStoreShape ==
    /\ NoId \notin DOMAIN album_variables
    /\ \A A \in DOMAIN album_variables :
           /\ A \in AlbumIds
           /\ DOMAIN album_variables[A] \subseteq StoreKeys \ {<<>>}
           /\ \A k \in DOMAIN album_variables[A] : album_variables[A][k] \in Values

C8_Witness ==
    /\ last.op = "clear_album_vars"
    /\ last.album = NoId
    /\ DOMAIN album_variables = AlbumIds
    /\ DOMAIN album_variables["A1"] # {}

\* Two names that normalize to the same key.
SameKey(n1, n2) == normalize_tagname(n1) = normalize_tagname(n2)

\* C9: normalization is idempotent, every stored key is a normalized name, and
\* a variable set through a name n1 is read back, overwritten and unset
\* through every name n2 with the same normalized form, in both scopes.
C9_NormalizedKeys ==
    /\ \A n \in Names :
           normalize_tagname(normalize_tagname(n)) = normalize_tagname(n)
    /\ \A k \in DOMAIN session_variables : normalize_tagname(k) = k
    /\ \A A \in DOMAIN album_variables :
           \A k \in DOMAIN album_variables[A] : normalize_tagname(k) = k
    /\ (last.op = "set_s" /\ last.value # "" /\ last.name # <<>>) =>
           \A n2 \in Names :
               SameKey(last.name, n2) =>
                   /\ func_get_s(session_variables, n2).ret = last.value
                   /\ \A v \in Values \ {""} :
                          LET sv2 == func_set_s(session_variables, n2, v).sv
                          IN  /\ DOMAIN sv2 = DOMAIN session_variables
                              /\ func_get_s(sv2, last.name).ret = v
                   /\ LET sv3 == func_unset_s(session_variables, n2).sv
                      IN  /\ normalize_tagname(last.name) \notin DOMAIN sv3
                          /\ func_get_s(sv3, last.name).ret = ""
    /\ (last.op = "set_a" /\ get_album_id(last.parser) # NoId /\ last.name # <<>>) =>
           LET A == get_album_id(last.parser)
               p == last.parser
           IN  \A n2 \in Names :
                   SameKey(last.name, n2) =>
                       /\ func_get_a(album_variables, p, n2).ret = last.value
                       /\ \A v \in Values :
                              LET av2 == func_set_a(album_variables, p, n2, v).av
                              IN  /\ DOMAIN av2[A] = DOMAIN album_variables[A]
                                  /\ func_get_a(av2, p, last.name).ret = v
                       /\ LET av3 == func_unset_a(album_variables, p, n2).av
                          IN  /\ normalize_tagname(last.name) \notin DOMAIN av3[A]
                              /\ func_get_a(av3, p, last.name).ret = ""

C9_Witness ==
    /\ last.op = "set_a"
    /\ last.name = <<"_", "a">>
    /\ last.value = "x"
    /\ get_album_id(last.parser) = "A1"
    /\ func_get_a(album_variables, last.parser, <<"~", "a">>).ret = "x"
    /\ DOMAIN album_variables["A1"] = {<<"~", "a">>}
    /\ DOMAIN session_variables = {<<"~", "a">>}

\* C10 as stated: after set_session_var(k, "") with a non-empty k, k is not a
\* key of the session mapping, which is as unset_session_var(k) leaves it.
C10_StoreSetEmptyUnsets ==
    (last.op = "set_session_var" /\ last.name # <<>> /\ last.value = "") =>
        /\ last.name \notin DOMAIN get_session_dict(session_variables)
        /\ session_variables = unset_session_var(session_variables, last.name)

\* C10 amended: after set_session_var(k, "") with a non-empty k, k is a key
\* of the session mapping with the value "", listed by get_session_dict;
\* get_session_var(k) returns "" as it does after unset_session_var(k).
C10_StoreSetEmptyStores ==
    (last.op = "set_session_var" /\ last.name # <<>> /\ last.value = "") =>
        /\ last.name \in DOMAIN get_session_dict(session_variables)
        /\ get_session_dict(session_variables)[last.name] = ""
        /\ get_session_var(session_variables, last.name) = ""
        /\ get_session_var(unset_session_var(session_variables, last.name),
                           last.name) = ""

C10_Witness ==
    /\ last.op = "set_session_var"
    /\ last.name = <<"~", "a">>
    /\ last.value = ""
    /\ DOMAIN session_variables = {<<"~", "a">>}
    /\ session_variables[<<"~", "a">>] = ""

\* C11: $clear_s leaves the session mapping empty, so that $get_s returns ""
\* for every name, and the mapping stays empty over every later call that is
\* not a $set_s.
C11_ClearSessionEmpties ==
    [][/\ last'.op = "clear_s" =>
              /\ session_variables' = EmptyDict
              /\ ret' = ""
              /\ \A n \in Names : func_get_s(session_variables', n).ret = ""
       /\ (session_variables = EmptyDict /\ last'.op # "set_s") =>
              /\ session_variables' = EmptyDict
              /\ last'.op = "get_s" => ret' = ""]_vars

C11_Witness ==
    /\ last.op = "clear_s"
    /\ session_variables = EmptyDict
    /\ ret = ""
    /\ DOMAIN album_variables = AlbumIds
    /\ DOMAIN album_variables["A1"] # {}

\* C15: after $set_a(k, "") with a resolved album A and a non-empty k, k is a
\* key of A's mapping with the value "", listed by get_album_dict(A); after
\* $set_s(k, "") k is not a key of the session mapping.
C15_AlbumSetKeepsEmptyValue ==
    /\ (last.op = "set_a" /\ get_album_id(last.parser) # NoId
            /\ last.name # <<>> /\ last.value = "") =>
           LET A == get_album_id(last.parser)
               k == normalize_tagname(last.name)
           IN  /\ A \in DOMAIN album_variables
               /\ k \in DOMAIN album_variables[A]
               /\ album_variables[A][k] = ""
               /\ k \in DOMAIN get_album_dict(album_variables, A)
               /\ Cardinality(DOMAIN get_album_dict(album_variables, A)) >= 1
    /\ (last.op = "set_s" /\ last.name # <<>> /\ last.value = "") =>
           normalize_tagname(last.name) \notin DOMAIN get_session_dict(session_variables)

C15_Witness ==
    /\ last.op = "set_a"
    /\ get_album_id(last.parser) = "A1"
    /\ last.name = <<"_", "a">>
    /\ last.value = ""
    /\ album_variables["A1"][<<"~", "a">>] = ""

\* The step leaves every album other than A as it was: present or absent, and
\* with the same mapping.
C16_OthersUntouched(A) ==
    \A B \in AlbumIds \ {A} :
        /\ (B \in DOMAIN album_variables') <=> (B \in DOMAIN album_variables)
        /\ B \in DOMAIN album_variables => album_variables'[B] = album_variables[B]

\* C16: $set_a, $unset_a, $clear_a and the two lifecycle processors, acting on
\* album A, change neither the mapping of any other album nor the session
\* mapping; $set_s, $unset_s and $clear_s do not change the album store.
C16_ScopeIsolation ==
    [][/\ last'.op \in {"set_a", "unset_a", "clear_a"} =>
              /\ C16_OthersUntouched(get_album_id(last'.parser))
              /\ session_variables' = session_variables
       /\ last'.op \in {"initialize_album_dict", "destroy_album_dict"} =>
              /\ C16_OthersUntouched(last'.album)
              /\ session_variables' = session_variables
       /\ last'.op \in {"set_s", "unset_s", "clear_s"} =>
              album_variables' = album_variables]_vars

C16_Witness ==
    /\ last.op = "clear_a"
    /\ get_album_id(last.parser) = "A1"
    /\ album_variables["A1"] = EmptyDict
    /\ "A2" \in DOMAIN album_variables
    /\ DOMAIN album_variables["A2"] # {}
    /\ DOMAIN session_variables # {}

\* C13: a store operation called a second time in succession with the same
\* arguments changes neither the album store nor the session mapping, and
\* returns what the first call returned.
C13_Idempotence ==
    [][last' = last =>
          /\ album_variables' = album_variables
          /\ session_variables' = session_variables
          /\ ret' = ret]_vars

C13_Witness ==
    /\ last.op = "set_album_var"
    /\ last.album = "A1"
    /\ last.name = <<"~", "a">>
    /\ last.value = "x"
    /\ album_variables["A1"][<<"~", "a">>] = "x"
    /\ set_album_var(album_variables, "A1", <<"~", "a">>, "x") = album_variables

StoreReads ==
    {"get_album_var", "get_session_var", "get_album_dict", "get_session_dict"}

\* C17: get_album_var, get_session_var, get_album_dict and get_session_dict
\* change neither the album store nor the session mapping; get_album_var
\* returns "" for an album that is not a key of the album store and for a
\* key that is not in the album's mapping, and get_album_dict returns an
\* empty mapping for an album that is not a key.
C17_ReadsArePure ==
    [][/\ last'.op \in StoreReads =>
              /\ album_variables' = album_variables
              /\ session_variables' = session_variables
       /\ (last'.op = "get_album_var"
              /\ (\/ last'.album \notin DOMAIN album_variables
                  \/ last'.name \notin DOMAIN album_variables[last'.album])) =>
              ret' = ""
       /\ (last'.op = "get_session_var"
              /\ last'.name \notin DOMAIN session_variables) =>
              ret' = ""
       /\ (last'.op = "get_album_dict"
              /\ last'.album \notin DOMAIN album_variables) =>
              ret' = EmptyDict]_vars

C17_Witness ==
    /\ last.op = "get_album_var"
    /\ last.album = "A2"
    /\ last.name = <<"~", "a">>
    /\ DOMAIN album_variables = {"A1"}
    /\ DOMAIN album_variables["A1"] = {<<"~", "a">>}
    /\ ret = ""

\* C12: opening the dialog on any file, track or album leaves the session
\* mapping and the album store as they were; an album without a mapping gets
\* none.
C12_DialogReadsOnly ==
    [][last'.op = "view" =>
          /\ session_variables' = session_variables
          /\ album_variables' = album_variables
          /\ DOMAIN album_variables' = DOMAIN album_variables]_vars

C12_Witness ==
    /\ last.op = "view"
    /\ last.parser.kind = "Album"
    /\ last.parser.album = "A2"
    /\ DOMAIN album_variables = {"A1"}
    /\ DOMAIN album_variables["A1"] # {}
    /\ DOMAIN session_variables # {}
    /\ ret.row_count = Cardinality(DOMAIN session_variables) + 2

\* Rows first..first+n-1 of the table are the n entries of dict d: one row
\* per key, keys strictly ascending, each with its value, not bold.
C14_Section(rows, first, d) ==
    LET n == Cardinality(DOMAIN d)
    IN  /\ { rows[i].key : i \in first..(first + n - 1) } = DOMAIN d
        /\ \A i \in first..(first + n - 1) :
               /\ ~rows[i].bold
               /\ rows[i].value = d[rows[i].key]
               /\ i < first + n - 1 => StrLess(rows[i].key, rows[i + 1].key)

\* C14: the table the dialog shows is the album header with the number of
\* keys of the target album's mapping, one row per key of that mapping in
\* ascending key order, the session header with the number of session keys,
\* and one row per session key in ascending key order; the row count is the
\* two numbers plus 2, and the album section is empty for a target without
\* album or without mapping.
C14_DialogTable ==
    last.op = "view" =>
        LET A  == dialog_album_id(last.parser)
            ad == IF A # NoId /\ A \in DOMAIN album_variables
                  THEN album_variables[A]
                  ELSE EmptyDict
            sd == session_variables
            na == Cardinality(DOMAIN ad)
            ns == Cardinality(DOMAIN sd)
            rows == ret.rows
        IN  /\ ret.row_count = na + ns + 2
            /\ Len(rows) = na + ns + 2
            /\ rows[1].bold
            /\ rows[1].key = <<"Album Variables">>
            /\ rows[1].value.n = na
            /\ C14_Section(rows, 2, ad)
            /\ rows[na + 2].bold
            /\ rows[na + 2].key = <<"Session Variables">>
            /\ rows[na + 2].value.n = ns
            /\ C14_Section(rows, na + 3, sd)

C14_Witness ==
    /\ last.op = "view"
    /\ last.parser.kind = "File"
    /\ last.parser.album = "A1"
    /\ DOMAIN album_variables = AlbumIds
    /\ DOMAIN album_variables["A1"] = {<<"b">>, <<"~", "a">>}
    /\ DOMAIN session_variables = {<<"b">>, <<"~", "a">>}
    /\ ret.row_count = 6
    /\ ret.rows[2].key = <<"b">>
    /\ ret.rows[3].key = <<"~", "a">>
    /\ ret.rows[3].value = album_variables["A1"][<<"~", "a">>]
    /\ ret.rows[3].value # album_variables["A1"][<<"b">>]

====
